---- MODULE Spec2Model ----
(***************************************************************************)
(* Project tracker (src/app.py): a Streamlit script that is re-executed    *)
(* top to bottom on every user interaction of a browser session.  All      *)
(* sessions share one remote worksheet ("Project Tracker".sheet1), reached *)
(* through four calls: get_all_values, get_all_records, append_row and     *)
(* update_cell.  A render is modelled as the sequence of its network calls *)
(* (lines 21, 22, 25, 67, 91); the local computation between two calls is  *)
(* part of the step that precedes it.                                      *)
(*                                                                         *)
(* Text cells are sequences of one-character strings, so that trimming,    *)
(* title-casing, date formatting and date parsing are computed.            *)
(* get_all_records converts a cell of digits to a number (gspread's        *)
(* default numericise); for the Status column this decides whether pandas' *)
(* .str accessor works, and is modelled.                                   *)
(***************************************************************************)
EXTENDS Integers, Sequences, FiniteSets, TLC

\* ------------------------------------------------------------------ bounds
\* Browser sessions sharing the worksheet.
NumSessions == 2
\* Rows of the worksheet up to which the single-session user still adds.
MaxRows == 4
\* Rows of the worksheet up to which concurrent users still add.
MaxRowsConc == 3
\* Rows of the worksheet up to which the user still adds next to an editor.
MaxRowsExt == 2
\* Row insertions and deletions made by hand in the worksheet.
MaxExt == 1
\* Reruns of the script: of the single session, of the concurrent sessions
\* together, of the session next to an editor.
MaxRenders == 7
MaxRendersConc == 5
MaxRendersExt == 5
\* Instants of a day at which the clock is read (0 is midnight).
TicksPerDay == 2
\* The current day, counted from 2024-01-01 = 0 (29 is 2024-01-30).
Today == 29

Sessions == 1..NumSessions

Min(S) == CHOOSE x \in S : \A y \in S : x <= y
Max(S) == CHOOSE x \in S : \A y \in S : x >= y
Range(f) == {f[k] : k \in DOMAIN f}

\* ------------------------------------------------------------ text (str)
LowerChars == <<"a","b","c","d","e","f","g","h","i","j","k","l","m","n","o","p","q","r","s","t","u","v","w","x","y","z">>
UpperChars == <<"A","B","C","D","E","F","G","H","I","J","K","L","M","N","O","P","Q","R","S","T","U","V","W","X","Y","Z">>
IsLower(c) == \E k \in 1..Len(LowerChars) : LowerChars[k] = c
IsUpper(c) == \E k \in 1..Len(UpperChars) : UpperChars[k] = c
IsCased(c) == IsLower(c) \/ IsUpper(c)
ToUpper(c) == IF IsLower(c) THEN UpperChars[CHOOSE k \in 1..Len(LowerChars) : LowerChars[k] = c] ELSE c
ToLower(c) == IF IsUpper(c) THEN LowerChars[CHOOSE k \in 1..Len(UpperChars) : UpperChars[k] = c] ELSE c

\* str.strip(): leading and trailing blanks removed.
StrStrip(s) ==
  LET keep == {k \in 1..Len(s) : s[k] # " "}
  IN IF keep = {} THEN <<>> ELSE SubSeq(s, Min(keep), Max(keep))

\* str.title(): a cased character is upper-cased when it follows an uncased
\* one (or starts the string) and lower-cased otherwise.
StrTitle(s) ==
  [k \in 1..Len(s) |-> IF k = 1 \/ ~IsCased(s[k - 1]) THEN ToUpper(s[k]) ELSE ToLower(s[k])]

\* df["Status"].str.strip().str.title()
NormalizeStatus(s) == StrTitle(StrStrip(s))

\* --------------------------------------------------------------- statuses
NotStarted == <<"N","o","t"," ","S","t","a","r","t","e","d">>
InProgress == <<"I","n"," ","P","r","o","g","r","e","s","s">>
OnHold == <<"O","n"," ","H","o","l","d">>
Completed == <<"C","o","m","p","l","e","t","e","d">>

progress_map == (NotStarted :> 0) @@ (InProgress :> 50) @@ (OnHold :> 25) @@ (Completed :> 100)
\* list(progress_map.keys()), in insertion order
status_options == <<NotStarted, InProgress, OnHold, Completed>>

\* df["Status"].map(progress_map): a one-element set, or {} for NaN.
MapProgress(st) == IF st \in DOMAIN progress_map THEN {progress_map[st]} ELSE {}

\* ------------------------------------------------------------------ dates
\* A date is its day number in 2024, 0 for 2024-01-01.
DaysInMonth == <<31, 29, 31, 30, 31, 30, 31, 31, 30, 31, 30, 31>>
RECURSIVE DaysBefore(_)
DaysBefore(m) == IF m <= 1 THEN 0 ELSE DaysBefore(m - 1) + DaysInMonth[m - 1]
MonthOf(n) == CHOOSE m \in 1..12 : DaysBefore(m) <= n /\ n < DaysBefore(m) + DaysInMonth[m]
DayOf(n) == n - DaysBefore(MonthOf(n)) + 1

Digits == <<"0","1","2","3","4","5","6","7","8","9">>
IsDigit(c) == \E k \in 1..10 : Digits[k] = c
DigitVal(c) == (CHOOSE k \in 1..10 : Digits[k] = c) - 1
TwoDigits(n) == <<Digits[(n \div 10) + 1], Digits[(n % 10) + 1]>>
YearChars == <<"2","0","2","4">>

\* str(date): ISO YYYY-MM-DD
DateStr(n) == YearChars \o <<"-">> \o TwoDigits(MonthOf(n)) \o <<"-">> \o TwoDigits(DayOf(n))

IsIsoDate(c) ==
  /\ Len(c) = 10
  /\ c[5] = "-" /\ c[8] = "-"
  /\ \A k \in {1, 2, 3, 4, 6, 7, 9, 10} : IsDigit(c[k])
  /\ SubSeq(c, 1, 4) = YearChars
  /\ LET m == 10 * DigitVal(c[6]) + DigitVal(c[7])
         d == 10 * DigitVal(c[9]) + DigitVal(c[10])
     IN m \in 1..12 /\ d >= 1 /\ d <= DaysInMonth[m]
IsoDay(c) == DaysBefore(10 * DigitVal(c[6]) + DigitVal(c[7])) + 10 * DigitVal(c[9]) + DigitVal(c[10]) - 1

\* pd.to_datetime of one cell: the empty string is NaT ({}), an ISO date of
\* the modelled year its day, any other text raises.
to_datetime(c) ==
  IF c = <<>> THEN [ok |-> TRUE, val |-> {}]
  ELSE IF IsIsoDate(c) THEN [ok |-> TRUE, val |-> {IsoDay(c)}]
  ELSE [ok |-> FALSE, val |-> {}]

\* (due - pd.Timestamp.today()).dt.days: the clock reads day Today, instant
\* tod of TicksPerDay; .days is the floor of the difference in days.
DaysLeft(due, tod) == ((due - Today) * TicksPerDay - tod) \div TicksPerDay

\* -------------------------------------------------------------- worksheet
Header == << <<"P","r","o","j","e","c","t"," ","N","a","m","e">>, <<"D","e","s","c","r","i","p","t","i","o","n">>, <<"S","t","a","t","u","s">>, <<"S","t","a","r","t"," ","D","a","t","e">>, <<"D","u","e"," ","D","a","t","e">> >>
BlankRow == << <<>>, <<>>, <<>>, <<>>, <<>> >>

\* sheet.append_row(values): the row becomes the new last row
\* (append_row_top: the row inserted right below the first row.)
append_row_top(st, row) == IF Len(st) = 0 THEN <<row>> ELSE <<st[1], row>> \o Tail(st)
append_row(st, row) == Append(st, row)

\* sheet.update_cell(r, c, v): one cell; rows short of r are blank rows
\* (update_cell_desc: the column counted from 0.)
update_cell_desc(st, r, c, v) ==
  LET grid == IF r <= Len(st) THEN st ELSE st \o [k \in 1..(r - Len(st)) |-> BlankRow]
  IN [grid EXCEPT ![r][c - 1] = v]
update_cell(st, r, c, v) ==
  LET grid == IF r <= Len(st) THEN st ELSE st \o [k \in 1..(r - Len(st)) |-> BlankRow]
  IN [grid EXCEPT ![r][c] = v]

\* sheet.get_all_records(): the rows after the first, keyed by the first
get_all_records(st) == IF Len(st) <= 1 THEN <<>> ELSE Tail(st)
Field(keys, row, label) == row[CHOOSE j \in 1..Len(keys) : keys[j] = label]
\* get_all_records numericises: a cell int() accepts becomes a number (in
\* the model, a cell of digits).
IsNumericText(c) == Len(c) > 0 /\ \A k \in 1..Len(c) : IsDigit(c[k])

\* ------------------------------------------------------------------ state
VARIABLES
  store,          \* the worksheet: a sequence of rows of five text cells
  rowId,          \* history: for each worksheet row the record it holds (0: none)
  nextId,         \* history: the next fresh record identity
  extOps,         \* insertions and deletions made by hand so far
  renders,        \* reruns of the script started so far
  lastWrite,      \* history: the last write a session made to the worksheet
  pc,             \* per session: the network call its render makes next
  pending,        \* per session: the interaction that started the render
  status_filter,  \* per session: the sidebar multiselect's value
  df,             \* per session: the in-memory table of its last load
  page            \* per session: what its last finished render shows

vars == <<store, rowId, nextId, extOps, renders, lastWrite, pc, pending, status_filter, df, page>>

AllStatuses == Range(status_options)

NoInput == [kind |-> "none", pname |-> <<>>, desc |-> <<>>, status |-> <<>>, sdate |-> 0, ddate |-> 0, i |-> 0, target |-> 0, sel |-> {}]
NoWrite == [op |-> "none", sess |-> 0, row |-> 0, col |-> 0, val |-> <<>>, target |-> 0, hit |-> 0, targetRow |-> 0, at |-> 0]

Init ==
  /\ store = <<>>
  /\ rowId = <<>>
  /\ nextId = 1
  /\ extOps = 0
  /\ renders = 0
  /\ lastWrite = NoWrite
  /\ pc = [s \in Sessions |-> "idle"]
  /\ pending = [s \in Sessions |-> NoInput]
  /\ status_filter = [s \in Sessions |-> AllStatuses]
  /\ df = [s \in Sessions |-> <<>>]
  /\ page = [s \in Sessions |-> "blank"]

\* ------------------------------------------------- load and derive (25-42)
\* What .str.strip().str.title() leaves for an element that is no string.
NaN == <<"NaN">>

\* Line 40 on one element of an object column.
StatusOf(raw) == IF IsNumericText(raw) THEN NaN ELSE NormalizeStatus(raw)

\* Line 40 raises AttributeError ("Can only use .str accessor with string
\* values") when the Status column holds numbers only.
StrAccessorRaises(keys, recs) == \A k \in 1..Len(recs) : IsNumericText(Field(keys, recs[k], Header[3]))

\* One row of df after lines 38-42; tod is the instant line 41 reads, rid
\* (history) the record the row was read from.
DeriveRow(keys, row, rid, tod) ==
  LET due == to_datetime(Field(keys, row, Header[5])).val
  IN [name |-> Field(keys, row, Header[1]),
      desc |-> Field(keys, row, Header[2]),
      status |-> StatusOf(Field(keys, row, Header[3])),
      start |-> to_datetime(Field(keys, row, Header[4])).val,
      due |-> due,
      daysLeft |-> {DaysLeft(d, tod) : d \in due},
      progress |-> MapProgress(StatusOf(Field(keys, row, Header[3]))),
      rid |-> rid]

\* pd.to_datetime raises on lines 38-39
DateRaises(keys, recs) ==
  \E k \in 1..Len(recs) : ~to_datetime(Field(keys, recs[k], Header[4])).ok \/ ~to_datetime(Field(keys, recs[k], Header[5])).ok

Derive(st, ids, tod) == [k \in 1..Len(get_all_records(st)) |-> DeriveRow(st[1], get_all_records(st)[k], ids[k + 1], tod)]

\* ------------------------------------------------------- filter (72-74)
\* df[df['Status'].isin(status_filter)]: the rows kept, each with its index
\* label in df (0-based), in df's order.
\* (filtered_df_not: the mask inverted.  filtered_df_all: no mask.
\* filtered_df_reset: the index renumbered, as after reset_index.)
filtered_df_not(d, sel) ==
  LET keep == SelectSeq([k \in 1..Len(d) |-> k], LAMBDA k : d[k].status \notin sel)
  IN [j \in 1..Len(keep) |-> [idx |-> keep[j] - 1, row |-> d[keep[j]]]]
filtered_df_all(d, sel) == [j \in 1..Len(d) |-> [idx |-> j - 1, row |-> d[j]]]
filtered_df_reset(d, sel) ==
  LET keep == SelectSeq([k \in 1..Len(d) |-> k], LAMBDA k : d[k].status \in sel)
  IN [j \in 1..Len(keep) |-> [idx |-> j - 1, row |-> d[keep[j]]]]
filtered_df(d, sel) ==
  LET keep == SelectSeq([k \in 1..Len(d) |-> k], LAMBDA k : d[k].status \in sel)
  IN [j \in 1..Len(keep) |-> [idx |-> keep[j] - 1, row |-> d[keep[j]]]]

\* int(row["Progress"]) on line 84 raises on NaN; .index(row["Status"]) on
\* line 89 raises on a status that is no option.
CardRaises(row) == row.progress = {} \/ row.status \notin AllStatuses

\* The cards a render completes before one raises.
ShownCards(fdf) ==
  LET bad == {k \in 1..Len(fdf) : CardRaises(fdf[k].row)}
  IN IF bad = {} THEN fdf ELSE SubSeq(fdf, 1, Min(bad) - 1)

\* The cards on the session's page, each with its edit_form_{idx}.
CardsShown(s) ==
  IF page[s] \in {"ok", "card_error"} THEN Range(ShownCards(filtered_df(df[s], status_filter[s]))) ELSE {}

\* The add form (57-68) and the sidebar filter (72) are on the page unless
\* the render stopped before them.
ControlsShown(s) == page[s] \in {"ok", "card_error"}

\* ----------------------------------------------------------- interactions
\* What a user can do on the page a session shows.  Each starts a rerun of
\* the script with the widget values the interaction sets.
Reload == {NoInput}
AddSubmits(names, statuses, dues) ==
  {[NoInput EXCEPT !.kind = "add", !.pname = n, !.desc = <<"d">>, !.status = st, !.sdate = Today, !.ddate = Today + k] : n \in names, st \in statuses, k \in dues}
UpdateSubmits(s, statuses) ==
  {[NoInput EXCEPT !.kind = "update", !.i = e.idx, !.status = st, !.target = e.row.rid] : e \in CardsShown(s), st \in statuses}
FilterChanges(sels) == {[NoInput EXCEPT !.kind = "filter", !.sel = sel] : sel \in sels}

Offered(s, inp) ==
  \/ inp.kind = "none"
  \/ inp.kind \in {"add", "filter"} /\ ControlsShown(s)
  \/ inp.kind = "update" /\ \E e \in CardsShown(s) : e.idx = inp.i

\* ------------------------------------------------------------- the script
\* A rerun starts: the widgets take the interaction's values and line 21
\* reads the worksheet's rows.  maxRows and maxRenders bound the model.
Rerun(s, inp, maxRows, maxRenders) ==
  /\ pc[s] = "idle"
  /\ renders < maxRenders
  /\ renders' = renders + 1
  /\ Offered(s, inp)
  /\ inp.kind = "add" /\ inp.pname # <<>> => Len(store) < maxRows
  /\ pending' = [pending EXCEPT ![s] = inp]
  /\ status_filter' = [status_filter EXCEPT ![s] = IF inp.kind = "filter" THEN inp.sel ELSE @]
  /\ pc' = [pc EXCEPT ![s] = IF Len(store) = 0 THEN "init" ELSE "load"]
  /\ UNCHANGED <<store, rowId, nextId, extOps, lastWrite, df, page>>

\* Line 22: the header is appended, line 21 having found no row.
InitHeader(s) ==
  /\ pc[s] = "init"
  /\ store' = append_row(store, Header)
  /\ rowId' = Append(rowId, 0)
  /\ lastWrite' = [NoWrite EXCEPT !.op = "header", !.sess = s, !.row = Len(store) + 1, !.at = renders]
  /\ pc' = [pc EXCEPT ![s] = "load"]
  /\ UNCHANGED <<nextId, extOps, renders, pending, status_filter, df, page>>

\* Lines 25-42: the records are read and the derived columns computed; a
\* date that does not parse (38-39) or a Status column of numbers (40) ends
\* the render with the exception shown.
Load(s, tod) ==
  /\ pc[s] = "load"
  /\ IF get_all_records(store) # <<>> /\ (DateRaises(store[1], get_all_records(store)) \/ StrAccessorRaises(store[1], get_all_records(store)))
     THEN /\ df' = [df EXCEPT ![s] = <<>>]
          /\ page' = [page EXCEPT ![s] = IF DateRaises(store[1], get_all_records(store)) THEN "date_error" ELSE "status_error"]
          /\ pending' = [pending EXCEPT ![s] = NoInput]
          /\ pc' = [pc EXCEPT ![s] = "idle"]
     ELSE /\ df' = [df EXCEPT ![s] = Derive(store, rowId, tod)]
          /\ pc' = [pc EXCEPT ![s] = "add"]
          /\ UNCHANGED <<page, pending>>
  /\ UNCHANGED <<store, rowId, nextId, extOps, renders, lastWrite, status_filter>>

\* The row line 67 appends.  (FormRowSwapped: the two dates exchanged.)
FormRowSwapped(inp) == <<inp.pname, inp.desc, inp.status, DateStr(inp.ddate), DateStr(inp.sdate)>>
FormRow(inp) == <<inp.pname, inp.desc, inp.status, DateStr(inp.sdate), DateStr(inp.ddate)>>

\* Lines 57-68: the add form; it writes when submitted with a name.
AddProject(s) ==
  /\ pc[s] = "add"
  /\ IF pending[s].kind = "add" /\ pending[s].pname # <<>>
     THEN /\ store' = append_row(store, FormRow(pending[s]))
          /\ rowId' = Append(rowId, nextId)
          /\ nextId' = nextId + 1
          /\ lastWrite' = [NoWrite EXCEPT !.op = "add", !.sess = s, !.row = Len(store) + 1, !.target = nextId, !.at = renders]
          /\ pending' = [pending EXCEPT ![s].target = nextId]
     ELSE UNCHANGED <<store, rowId, nextId, lastWrite, pending>>
  /\ pc' = [pc EXCEPT ![s] = "cards"]
  /\ UNCHANGED <<extOps, renders, status_filter, df, page>>

\* Line 91's row: the index label, past the header row, counted from 1.
\* (SheetRowOff: the ordinal of the record plus header plus one.)
SheetRowOff(i) == (i + 1) + 1 + 1
SheetRow(i) == i + 2

\* The worksheet row of identity id (0 when it holds none).
RowOf(ids, id) == IF \E r \in 1..Len(ids) : ids[r] = id /\ id # 0 THEN CHOOSE r \in 1..Len(ids) : ids[r] = id ELSE 0

\* Lines 72-166: the cards of the filtered rows in order, each with its
\* update form (the submitted one writes on line 91), then the summary,
\* the charts and the export, which read df and filtered_df only.
DisplayProjects(s) ==
  /\ pc[s] = "cards"
  /\ LET fdf == filtered_df(df[s], status_filter[s])
         shown == ShownCards(fdf)
         fires == pending[s].kind = "update" /\ \E e \in Range(shown) : e.idx = pending[s].i
         r == SheetRow(pending[s].i)
     IN /\ IF fires
           THEN /\ store' = update_cell(store, r, 3, pending[s].status)
                /\ rowId' = IF r <= Len(rowId) THEN rowId ELSE rowId \o [k \in 1..(r - Len(rowId)) |-> 0]
                /\ lastWrite' = [NoWrite EXCEPT !.op = "update", !.sess = s, !.row = r, !.col = 3, !.val = pending[s].status, !.target = pending[s].target, !.hit = IF r <= Len(rowId) THEN rowId[r] ELSE 0, !.targetRow = RowOf(rowId, pending[s].target), !.at = renders]
           ELSE UNCHANGED <<store, rowId, lastWrite>>
        /\ page' = [page EXCEPT ![s] = IF Len(shown) = Len(fdf) THEN "ok" ELSE "card_error"]
  /\ pending' = [pending EXCEPT ![s] = NoInput]
  /\ pc' = [pc EXCEPT ![s] = "idle"]
  /\ UNCHANGED <<nextId, extOps, renders, status_filter, df>>

\* ---------------------------------------------------- edits made by hand
\* Someone edits the worksheet outside the program: a row inserted above or
\* between the records, or a record row deleted.  Rows below move.
InsertAt(q, r, x) == SubSeq(q, 1, r - 1) \o <<x>> \o SubSeq(q, r, Len(q))
RemoveAt(q, r) == SubSeq(q, 1, r - 1) \o SubSeq(q, r + 1, Len(q))
\* A blank row at the end of the worksheet is no row.
RECURSIVE TrimBlank(_)
TrimBlank(q) == IF Len(q) > 0 /\ q[Len(q)] = BlankRow THEN TrimBlank(SubSeq(q, 1, Len(q) - 1)) ELSE q

ExtInsertRow(r, st) ==
  /\ extOps < MaxExt
  /\ Len(store) >= 1 /\ Len(store) <= MaxRowsExt
  /\ r \in 2..(Len(store) + 1)
  /\ store' = InsertAt(store, r, <<<<"X">>, <<>>, st, DateStr(Today), DateStr(Today + 1)>>)
  /\ rowId' = InsertAt(rowId, r, nextId)
  /\ nextId' = nextId + 1
  /\ extOps' = extOps + 1
  /\ UNCHANGED <<renders, lastWrite, pc, pending, status_filter, df, page>>

ExtDeleteRow(r) ==
  /\ extOps < MaxExt
  /\ r \in 2..Len(store)
  /\ store' = TrimBlank(RemoveAt(store, r))
  /\ rowId' = SubSeq(RemoveAt(rowId, r), 1, Len(TrimBlank(RemoveAt(store, r))))
  /\ extOps' = extOps + 1
  /\ UNCHANGED <<nextId, renders, lastWrite, pc, pending, status_filter, df, page>>

\* -------------------------------------------------------- specifications
Ticks == 0..(TicksPerDay - 1)
Named == {<<"A">>}
TwoNames == {<<"A">>, <<"B">>}
NameInputs == {<<>>, <<"A">>}
\* statuses stored by hand: one the load normalizes, two outside the four
ExtStatuses == {<<" ","o","n"," ","H","O","L","D">>, <<"D","o","n","e">>, <<"7">>}
PartFilter == {NotStarted}

\* Sessions of the program only, any number of them interleaved.
InputsConc(s) == Reload \cup AddSubmits(TwoNames, {NotStarted}, {3}) \cup UpdateSubmits(s, {Completed})
Next ==
  \E s \in Sessions :
    \/ \E inp \in InputsConc(s) : Rerun(s, inp, MaxRowsConc, MaxRendersConc)
    \/ InitHeader(s)
    \/ Load(s, 0)
    \/ AddProject(s)
    \/ DisplayProjects(s)
Spec == Init /\ [][Next]_vars

\* One session, with every kind of input.
InputsOne(s) == Reload \cup AddSubmits(NameInputs, {NotStarted}, {-1, 3}) \cup UpdateSubmits(s, {Completed}) \cup FilterChanges({AllStatuses, {}, PartFilter})
NextOne ==
  \/ \E inp \in InputsOne(1) : Rerun(1, inp, MaxRows, MaxRenders)
  \/ InitHeader(1)
  \/ \E tod \in Ticks : Load(1, tod)
  \/ AddProject(1)
  \/ DisplayProjects(1)
SpecOne == Init /\ [][NextOne]_vars

\* One session next to someone editing the worksheet by hand.
InputsExt(s) == Reload \cup AddSubmits(Named, {NotStarted}, {3}) \cup UpdateSubmits(s, {Completed}) \cup FilterChanges({AllStatuses, {}})
NextExt ==
  \/ \E inp \in InputsExt(1) : Rerun(1, inp, MaxRowsExt, MaxRendersExt)
  \/ InitHeader(1)
  \/ Load(1, 0)
  \/ AddProject(1)
  \/ DisplayProjects(1)
  \/ \E r \in 2..(MaxRowsExt + MaxExt + 1), st \in ExtStatuses : ExtInsertRow(r, st)
  \/ \E r \in 2..(MaxRowsExt + MaxExt + 1) : ExtDeleteRow(r)
SpecExt == Init /\ [][NextExt]_vars

\* ================================================================ claims
\* new is old with the one cell (r, c) set to v, every other cell as it was.
OnlyCellSet(old, new, r, c, v) ==
  /\ Len(new) = Len(old)
  /\ r \in 1..Len(old)
  /\ \A q \in 1..Len(old) : \A j \in 1..5 : new[q][j] = IF q = r /\ j = c THEN v ELSE old[q][j]

\* Session s finishes a render whose submitted update form is on the page.
UpdateStep(s) == pc[s] = "cards" /\ pc'[s] = "idle" /\ lastWrite'.op = "update" /\ lastWrite'.sess = s /\ lastWrite'.at = renders

\* Session s finishes a render in which the update form of index i was
\* submitted and is drawn again: the row at i of its table passes its filter
\* (line 90 is reached and the submit button reads True).
FormSubmitted(s) ==
  /\ pc[s] = "cards" /\ pc'[s] = "idle" /\ pending[s].kind = "update"
  /\ pending[s].i + 1 \in 1..Len(df[s]) /\ df[s][pending[s].i + 1].status \in status_filter[s]

\* C1: a submitted status update of the record at index i of the unfiltered
\* table writes exactly the cell (row i + 2, column 3), which is the Status
\* cell of the worksheet row that record was loaded from, and no other cell,
\* whatever the filter shows.
C1_UpdateWritesOwnStatusCell ==
  [][\A s \in Sessions : FormSubmitted(s) =>
       /\ UpdateStep(s)
       /\ lastWrite'.col = 3
       /\ \E k \in 1..Len(df[s]) : df[s][k].rid = lastWrite'.target /\ lastWrite'.row = (k - 1) + 2
       /\ lastWrite'.row <= Len(rowId) /\ rowId[lastWrite'.row] = lastWrite'.target
       /\ OnlyCellSet(store, store', lastWrite'.row, 3, pending[s].status)]_vars

\* A filtered page: the first record is hidden, the second is the first card
\* and its update was written to row 3.
C1_Witness ==
  /\ lastWrite.op = "update" /\ lastWrite.sess = 1 /\ lastWrite.at = renders /\ pc[1] = "idle"
  /\ status_filter[1] = PartFilter
  /\ Len(df[1]) >= 2 /\ df[1][1].status \notin PartFilter /\ df[1][2].rid = lastWrite.target
  /\ lastWrite.row = 3 /\ store[3][3] = Completed

\* Session s submits the add form with a project name.
AddStep(s) == pc[s] = "add" /\ pc'[s] = "cards" /\ pending[s].kind = "add" /\ pending[s].pname # <<>>

\* The cell is the ISO text YYYY-MM-DD of day n.
IsIsoOf(c, n) ==
  /\ Len(c) = 10 /\ c[5] = "-" /\ c[8] = "-"
  /\ \A k \in {1, 2, 3, 4, 6, 7, 9, 10} : IsDigit(c[k])
  /\ to_datetime(c) = [ok |-> TRUE, val |-> {n}]

\* C2: an add submitted with a project name appends exactly one row, as the
\* last row, holding name, description, status, start date and due date in
\* that order (the dates as ISO text), and changes no existing row.
C2_AddAppendsOneRow ==
  [][\A s \in Sessions : AddStep(s) =>
       /\ Len(store') = Len(store) + 1
       /\ SubSeq(store', 1, Len(store)) = store
       /\ LET row == store'[Len(store')]
          IN /\ Len(row) = 5
             /\ row[1] = pending[s].pname /\ row[2] = pending[s].desc /\ row[3] = pending[s].status
             /\ IsIsoOf(row[4], pending[s].sdate) /\ IsIsoOf(row[5], pending[s].ddate)]_vars

C2_Witness ==
  /\ lastWrite.op = "add" /\ lastWrite.row = 3 /\ Len(store) = 3
  /\ store[3] = << <<"A">>, <<"d">>, NotStarted, <<"2","0","2","4","-","0","1","-","3","0">>, <<"2","0","2","4","-","0","2","-","0","2">> >>

\* Session s finishes a render in which the update form of the third record
\* of its table was submitted with Completed, the record being on the page.
ThirdUpdated(s) ==
  /\ pc[s] = "cards" /\ pc'[s] = "idle"
  /\ pending[s].kind = "update" /\ pending[s].status = Completed /\ pending[s].i = 2
  /\ Len(df[s]) >= 3 /\ df[s][3].status \in status_filter[s]

\* C5 as claimed: updating the third in-memory record to Completed writes
\* the cell (row 5, column 3).
C5_Claimed_RowFive ==
  [][\A s \in Sessions : ThirdUpdated(s) => lastWrite'.op = "update" /\ lastWrite'.row = 5 /\ lastWrite'.col = 3]_vars

\* C5 amended: updating the third in-memory record to Completed writes the
\* cell (row 4, column 3), the index 2 plus 2, and no other cell.
C5_ThirdRecordWritesRowFour ==
  [][\A s \in Sessions : ThirdUpdated(s) =>
       /\ lastWrite'.op = "update" /\ lastWrite'.sess = s /\ lastWrite'.at = renders
       /\ lastWrite'.row = 4 /\ lastWrite'.col = 3
       /\ OnlyCellSet(store, store', 4, 3, Completed)]_vars

C5_Witness ==
  /\ lastWrite.op = "update" /\ lastWrite.row = 4 /\ lastWrite.col = 3 /\ lastWrite.val = Completed
  /\ Len(store) = 4 /\ store[4][3] = Completed /\ store[2][3] = NotStarted /\ store[3][3] = NotStarted
  /\ Len(df[1]) = 3 /\ df[1][3].rid = lastWrite.target /\ lastWrite.hit = lastWrite.target

\* C6 as claimed: Days Left of a record due on day Today + k is k, at
\* whatever instant of the day the load reads the clock.
C6_Claimed_DaysLeftIsDateDifference ==
  \A s \in Sessions : \A k \in 1..Len(df[s]) : \A d \in df[s][k].due : df[s][k].daysLeft = {d - Today}

\* C3 as claimed: once the worksheet has a row, its first row is the header
\* and no later row is a header, however the sessions' renders interleave.
C3_Claimed_HeaderOnce ==
  Len(store) >= 1 => store[1] = Header /\ \A r \in 2..Len(store) : store[r] # Header

\* The raw statuses of the model with the progress the mapping gives their
\* trimmed, title-cased form.
ExpectedProgress(raw) ==
  CASE raw = NotStarted -> {0}
    [] raw = InProgress -> {50}
    [] raw = OnHold -> {25}
    [] raw = Completed -> {100}
    [] raw = <<" ","o","n"," ","H","O","L","D">> -> {25}
    [] OTHER -> {}

\* The rows of d whose status is in sel, as positions of d in order.
RECURSIVE Kept(_, _, _)
Kept(d, sel, k) == IF k > Len(d) THEN <<>> ELSE (IF d[k].status \in sel THEN <<k>> ELSE <<>>) \o Kept(d, sel, k + 1)

\* C4 as claimed: whatever statuses are stored, filtering a loaded table
\* with all four statuses selected returns the whole table.
C4_Claimed_FullFilterKeepsAll ==
  \A s \in Sessions : Len(filtered_df(df[s], AllStatuses)) = Len(df[s])

\* C4 amended: for every selection the filter returns exactly the rows whose
\* normalized status is selected, in table order, each under its index in
\* the table; so the empty selection returns no row, and the full selection
\* returns the rows whose normalized status is one of the four.
C4_FilterKeepsSelected ==
  \A s \in Sessions : \A sel \in SUBSET AllStatuses :
    LET f == filtered_df(df[s], sel)
        want == Kept(df[s], sel, 1)
    IN /\ Len(f) = Len(want)
       /\ \A j \in 1..Len(want) : f[j].idx = want[j] - 1 /\ f[j].row = df[s][want[j]]
       /\ (sel = {} => f = <<>>)
       /\ (sel = AllStatuses => Len(f) = Cardinality({k \in 1..Len(df[s]) : df[s][k].progress # {}}))

\* A rendered page with the default filter whose table holds a record of an
\* unknown status next to a record of a known one.
C4_Witness ==
  /\ page[1] = "ok" /\ pc[1] = "idle" /\ status_filter[1] = AllStatuses
  /\ \E k \in 1..Len(df[1]) : df[1][k].status = <<"D","o","n","e">>
  /\ \E k \in 1..Len(df[1]) : df[1][k].status = NotStarted
  /\ Len(filtered_df(df[1], AllStatuses)) < Len(df[1])

\* C7 as claimed: every loaded record's Progress is the mapping of its
\* trimmed, title-cased Status, undefined outside the four values, and no
\* render raises, whatever the filter selects.
C7_Claimed_ProgressAndNoError ==
  /\ [](\A s \in Sessions : /\ page[s] \notin {"card_error", "date_error", "status_error"}
                           /\ \A k \in 1..Len(df[s]) : (df[s][k].progress = {}) <=> (df[s][k].status \notin AllStatuses))
  /\ [][\A s \in Sessions : pc[s] = "load" /\ pc'[s] = "add" =>
          /\ Len(df'[s]) = Len(store) - 1
          /\ \A k \in 1..Len(df'[s]) : df'[s][k].progress = ExpectedProgress(store[k + 1][3])]_vars

\* C8 as claimed: the render that writes an add holds a table without the
\* new row, and every load that follows shows every record added before it.
C8_Claimed_AddShownAfterReload ==
  /\ [](\A s \in Sessions : pc[s] = "cards" /\ pending[s].kind = "add" /\ pending[s].target # 0 =>
          \A k \in 1..Len(df[s]) : df[s][k].rid # pending[s].target)
  /\ [][\A t \in Sessions : pc[t] = "load" /\ pc'[t] # "load" =>
          \A r \in 1..Len(rowId) : rowId[r] # 0 =>
            page'[t] # "date_error" /\ \E k \in 1..Len(df'[t]) : df'[t][k].rid = rowId[r]]_vars

\* C9: with rows inserted or deleted by hand since the page was shown, the
\* update is written to (row i + 2, column 3) all the same, whichever
\* record, if any, that row now holds.
C9_UpdateWrittenByPosition ==
  [][\A s \in Sessions : FormSubmitted(s) =>
       LET r == pending[s].i + 2
       IN /\ lastWrite'.op = "update" /\ lastWrite'.sess = s /\ lastWrite'.at = renders
          /\ lastWrite'.row = r /\ lastWrite'.col = 3
          /\ Len(store') = IF r > Len(store) THEN r ELSE Len(store)
          /\ \A q \in 1..Len(store') : \A j \in 1..5 :
               store'[q][j] = IF q = r /\ j = 3 THEN pending[s].status ELSE IF q <= Len(store) THEN store[q][j] ELSE <<>>]_vars

\* The write changed a row that holds another record than the one the user
\* chose, which is still in the worksheet, in a row the write left alone.
C9_Witness ==
  /\ lastWrite.op = "update" /\ lastWrite.at = renders /\ pc[lastWrite.sess] = "idle"
  /\ lastWrite.hit # lastWrite.target /\ lastWrite.hit # 0
  /\ lastWrite.targetRow # 0 /\ lastWrite.targetRow # lastWrite.row
  /\ store[lastWrite.targetRow][3] # lastWrite.val /\ store[lastWrite.row][3] = lastWrite.val

\* C10: with sessions of the program as the only writers, no step moves a
\* row or changes its name, description or dates, and every status update is
\* written to the Status cell of the record the submitting user chose.
C10_PositionsStable ==
  [][/\ Len(store') >= Len(store)
     /\ \A r \in 1..Len(store) : rowId'[r] = rowId[r] /\ \A c \in {1, 2, 4, 5} : store'[r][c] = store[r][c]
     /\ \A s \in Sessions : UpdateStep(s) =>
          /\ lastWrite'.row <= Len(store) /\ lastWrite'.target # 0
          /\ rowId[lastWrite'.row] = lastWrite'.target
          /\ store'[lastWrite'.row][3] = lastWrite'.val]_vars

\* An update hit its record although another session appended a row between
\* the updating render's load and its write.
C10_Witness ==
  /\ lastWrite.op = "update" /\ lastWrite.hit = lastWrite.target /\ lastWrite.target # 0
  /\ pc[lastWrite.sess] = "idle" /\ lastWrite.at = renders
  /\ Len(df[lastWrite.sess]) = 1 /\ Len(store) = 3 /\ rowId[3] # 0 /\ store[2][1] # store[3][1]
====
